---- MODULE Spec2Model ----
(***************************************************************************)
(* Buy Side Bro mobile shell: the biometric-gated session restore that     *)
(* runs at launch, the Session Observer that saves or clears the cookie    *)
(* snapshot after each page load, and the URL-pattern logout.              *)
(*                                                                         *)
(* JavaScript runs handlers on one thread: the code between two awaits is  *)
(* one atomic step, and every awaited platform call either resolves or     *)
(* rejects.  Each action below is one such step.                           *)
(***************************************************************************)
EXTENDS Integers, Sequences, FiniteSets, TLC

\* ------------------------------------------------------------------ bounds

\* Session Observer runs in flight at once (onLoadEnd does not wait for the last).
MaxRuns == 1
\* Fire-and-forget logout operations in flight at once, per kind.
\* Invocations of registerForPushNotifications counted in one login session; the
\* count stays at this value once it is reached.
MaxCalls == 2

\* NetInfo.fetch() calls of retry() that may be in flight at a time.
MaxRetrying == 1

MaxPending == 1

\* --------------------------------------------------------- program constants

WEBSITE_URL == "https://www.buysidebro.com"
WEBSITE_ORIGIN == "buysidebro.com"
STORE_COOKIES_KEY == "session_cookies"
STORE_BIOMETRIC_KEY == "biometric_enabled"
STORE_DEVICE_TOKEN_KEY == "push_device_token"
\* `json.length < 2000`
SizeThreshold == 2000
\* `cookie.domain || '.buysidebro.com'` and `cookie.path || '/'`
DefaultDomain == ".buysidebro.com"
DefaultPath == "/"

\* JavaScript null / undefined, as read from an absent key or a missing field.
Null == "<null>"
Undefined == "<undefined>"

\* ------------------------------------------------------------------ strings

\* The one-character string at position i of s ("" outside it).
Ch(s, i) == IF i >= 1 /\ i <= Len(s) THEN SubSeq(s, i, i) ELSE ""

\* s.substring(i-1, j) clipped to the string.
Sub(s, i, j) == IF i >= 1 /\ j <= Len(s) /\ i <= j THEN SubSeq(s, i, j) ELSE ""

\* String.prototype.includes
Includes(s, t) == \E i \in 1..(Len(s) - Len(t) + 1) : SubSeq(s, i, i + Len(t) - 1) = t

\* String.prototype.startsWith
StartsWith(s, t) == Len(t) <= Len(s) /\ SubSeq(s, 1, Len(t)) = t

UpperChars == <<"A","B","C","D","E","F","G","H","I","J","K","L","M",
                "N","O","P","Q","R","S","T","U","V","W","X","Y","Z">>
LowerChars == <<"a","b","c","d","e","f","g","h","i","j","k","l","m",
                "n","o","p","q","r","s","t","u","v","w","x","y","z">>

LowerChar(c) ==
    IF \E k \in 1..Len(UpperChars) : UpperChars[k] = c
    THEN LowerChars[CHOOSE k \in 1..Len(UpperChars) : UpperChars[k] = c]
    ELSE c

RECURSIVE LowerFrom(_, _)
LowerFrom(s, i) == IF i > Len(s) THEN "" ELSE LowerChar(Ch(s, i)) \o LowerFrom(s, i + 1)

\* String.prototype.toLowerCase
ToLowerCase(s) == LowerFrom(s, 1)

RECURSIVE Repeat(_, _)
Repeat(s, n) == IF n = 0 THEN "" ELSE s \o Repeat(s, n - 1)

\* --------------------------------------------------------------------- JSON
(* The snapshot is stored as JSON text.  JSON.stringify writes the members *)
(* of an object in order and skips the undefined ones; JSON.parse reads    *)
(* the text back or throws.  The cookie values of the model need no        *)
(* escaping.  A parsed object is the sequence of its <<key, value>>        *)
(* members, a parsed value is [t |-> "str" | "bool" | "obj", v |-> ...].   *)

Quote(s) == "\"" \o s \o "\""

RECURSIVE Join(_, _)
Join(parts, sep) ==
    IF Len(parts) = 0 THEN ""
    ELSE IF Len(parts) = 1 THEN parts[1]
    ELSE parts[1] \o sep \o Join(Tail(parts), sep)

\* The fields of a Cookie, in the order the cookie bridge writes them.
FieldOrder == <<"name", "value", "domain", "path", "secure", "httpOnly", "expires">>
BoolFields == {"secure", "httpOnly"}

RECURSIVE SelectFields(_, _)
SelectFields(c, i) ==
    IF i > Len(FieldOrder) THEN <<>>
    ELSE LET f == FieldOrder[i]
         IN  IF f \in DOMAIN c
             THEN <<Quote(f) \o ":" \o
                    (IF f \in BoolFields THEN (IF c[f] THEN "true" ELSE "false")
                     ELSE Quote(c[f]))>> \o SelectFields(c, i + 1)
             ELSE SelectFields(c, i + 1)

StringifyCookie(c) == "{" \o Join(SelectFields(c, 1), ",") \o "}"

JsonFail == [ok |-> FALSE, val |-> [t |-> "none"], pos |-> 0]

\* Index of the first quote at or after i, 0 when there is none.
RECURSIVE ScanQuote(_, _)
ScanQuote(s, i) ==
    IF i > Len(s) THEN 0 ELSE IF Ch(s, i) = "\"" THEN i ELSE ScanQuote(s, i + 1)

RECURSIVE ParseValue(_, _), ParseMembers(_, _, _)
ParseValue(s, i) ==
    IF Ch(s, i) = "\""
    THEN LET j == ScanQuote(s, i + 1)
         IN  IF j = 0 THEN JsonFail
             ELSE [ok |-> TRUE, val |-> [t |-> "str", v |-> Sub(s, i + 1, j - 1)], pos |-> j + 1]
    ELSE IF Sub(s, i, i + 3) = "true"
    THEN [ok |-> TRUE, val |-> [t |-> "bool", v |-> TRUE], pos |-> i + 4]
    ELSE IF Sub(s, i, i + 4) = "false"
    THEN [ok |-> TRUE, val |-> [t |-> "bool", v |-> FALSE], pos |-> i + 5]
    ELSE IF Ch(s, i) = "{"
    THEN IF Ch(s, i + 1) = "}"
         THEN [ok |-> TRUE, val |-> [t |-> "obj", v |-> <<>>], pos |-> i + 2]
         ELSE ParseMembers(s, i + 1, <<>>)
    ELSE JsonFail

ParseMembers(s, i, acc) ==
    IF Ch(s, i) # "\"" THEN JsonFail
    ELSE LET j == ScanQuote(s, i + 1)
         IN  IF j = 0 \/ Ch(s, j + 1) # ":" THEN JsonFail
             ELSE LET key == Sub(s, i + 1, j - 1)
                      r == ParseValue(s, j + 2)
                  IN  IF ~r.ok THEN JsonFail
                      ELSE LET acc2 == Append(acc, <<key, r.val>>)
                           IN  IF Ch(s, r.pos) = ","
                               THEN ParseMembers(s, r.pos + 1, acc2)
                               ELSE IF Ch(s, r.pos) = "}"
                               THEN [ok |-> TRUE, val |-> [t |-> "obj", v |-> acc2],
                                     pos |-> r.pos + 1]
                               ELSE JsonFail

\* JSON.parse: ok is FALSE where JSON.parse throws a SyntaxError.
JsonParse(s) ==
    LET r == ParseValue(s, 1)
    IN  IF r.ok /\ r.pos = Len(s) + 1 THEN r ELSE JsonFail

\* obj[key] of a parsed object: the last member of that name, if any.
HasProp(obj, key) == \E k \in 1..Len(obj.v) : obj.v[k][1] = key
Prop(obj, key) ==
    obj.v[CHOOSE k \in 1..Len(obj.v) :
              obj.v[k][1] = key /\ \A m \in (k + 1)..Len(obj.v) : obj.v[m][1] # key][2]

\* Object.values
ObjectValues(obj) == [k \in 1..Len(obj.v) |-> obj.v[k][2]]

\* ------------------------------------------------------------------ cookies
(* A Cookie is a record over a subset of FieldOrder (a field the bridge    *)
(* leaves out is undefined).  Cookies, the value CookieManager.get         *)
(* returns and the content of the Cookie Jar, maps cookie names to         *)
(* cookies.                                                                *)

X10 == "xxxxxxxxxx"
X100 == X10 \o X10 \o X10 \o X10 \o X10 \o X10 \o X10 \o X10 \o X10 \o X10
X1000 == X100 \o X100 \o X100 \o X100 \o X100 \o X100 \o X100 \o X100 \o X100 \o X100
\* A value that brings the serialization of {sid} to exactly SizeThreshold characters.
BigValue == X1000 \o X100 \o X100 \o X100 \o X100 \o X100 \o X100 \o X100 \o X100 \o X100 \o
            X10 \o X10 \o X10 \o X10 \o X10 \o X10 \o "xxxxxxx"

SidCookie == [name |-> "sid", value |-> "abc", domain |-> "www.buysidebro.com",
              secure |-> FALSE, httpOnly |-> TRUE, expires |-> "2027-01-01T00:00:00.000Z"]
SidBig == [name |-> "sid", value |-> BigValue]
ThemeBare == [name |-> "theme", value |-> "dark"]
ThemeBig == [name |-> "theme", value |-> BigValue]

\* The cookies the Remote Site sets, as the bridge reports them.
PageCookies == {SidCookie, SidBig, ThemeBare, ThemeBig}
\* Key order of a Cookies object.
NameOrder == <<"sid", "theme">>
CookieNames == {NameOrder[k] : k \in 1..Len(NameOrder)}

NoCookies == [n \in {} |-> SidCookie]

\* Every Cookie Jar content the Remote Site can produce.
PageJars ==
    UNION {{j \in [N -> PageCookies] : \A n \in N : j[n].name = n} : N \in SUBSET CookieNames}

RECURSIVE SelectCookies(_, _)
SelectCookies(cookies, i) ==
    IF i > Len(NameOrder) THEN <<>>
    ELSE LET n == NameOrder[i]
         IN  IF n \in DOMAIN cookies
             THEN <<Quote(n) \o ":" \o StringifyCookie(cookies[n])>> \o
                  SelectCookies(cookies, i + 1)
             ELSE SelectCookies(cookies, i + 1)

\* JSON.stringify(cookies)
Stringify(cookies) == "{" \o Join(SelectCookies(cookies, 1), ",") \o "}"

\* The session markers of hasSessionCookie.
SessionMarkers == {"session", "sid", "connect", "auth", "token"}

\* Faulty variant: the names are compared without regard to case.
hasSessionCookie_IgnoresCase(cookies) ==
    \E name \in DOMAIN cookies : \E m \in SessionMarkers : Includes(ToLowerCase(name), m)

\* hasSessionCookie(cookies)
hasSessionCookie(cookies) ==
    \E name \in DOMAIN cookies : \E m \in SessionMarkers : Includes(name, m)

\* Cookie names and values for hasSessionCookie: one name for each marker, and
\* names that hold no marker (two of them hold one in another case).
ProbeNames == {"session_id", "xsid", "connect", "oauth", "csrftoken", "theme", "PHPSESSID", "Token"}
ProbeValues == {"1", "session"}
\* The cookie sets CookieManager.get may return over these names and values.
ProbeJars ==
    UNION {{[n \in N |-> [name |-> n, value |-> v[n]]] : v \in [N -> ProbeValues]} :
           N \in SUBSET ProbeNames}

\* `x || d` on a string property of a parsed cookie: d when x is missing or "".
OrDefault(c, key, d) ==
    IF HasProp(c, key) /\ Prop(c, key).t = "str" /\ Prop(c, key).v # "" THEN Prop(c, key).v ELSE d

\* `x ?? d` on a boolean property of a parsed cookie: d when x is missing.
Coalesce(c, key, d) == IF HasProp(c, key) THEN Prop(c, key).v ELSE d

\* The cookie restoreCookies hands to CookieManager.set for a parsed cookie c.
RestoredCookie(c) ==
    LET base == [name |-> Prop(c, "name").v, value |-> Prop(c, "value").v,
                 domain |-> OrDefault(c, "domain", DefaultDomain),
                 path |-> OrDefault(c, "path", DefaultPath),
                 secure |-> Coalesce(c, "secure", TRUE),
                 httpOnly |-> Coalesce(c, "httpOnly", FALSE)]
    IN  IF OrDefault(c, "expires", "") # ""
        THEN [f \in DOMAIN base \cup {"expires"} |->
                  IF f = "expires" THEN Prop(c, "expires").v ELSE base[f]]
        ELSE base

\* CookieManager.set(WEBSITE_URL, cookie): the jar after it.
JarSet(j, cookie) ==
    [n \in DOMAIN j \cup {cookie.name} |-> IF n = cookie.name THEN cookie ELSE j[n]]

\* -------------------------------------------------------------------- state

VARIABLES
    platformOS,             \* Platform.OS
    isDevice,               \* Device.isDevice
    store,                  \* Secure Credential Store: cookies, flag, token (Null: absent)
    jar,                    \* Cookie Jar: Cookies
    initPc,                 \* where the biometric initialization effect stands
    storedCookies,          \* its locals
    biometricEnabled,
    hasHardware,
    isEnrolled,
    toSet,                  \* restoreCookies: parsed cookies still to be set
    initResult,             \* how the try block of the effect ended
    promptCount,            \* biometric prompts shown by the running flow
    restoreOps,             \* Cookie Jar operations made by restoreCookies
    jarAtLaunch,            \* the Cookie Jar as the launch found it (kept while the flow runs)
    showWebView,            \* React state
    isLoggedIn,
    canGoBack,
    notificationRegistered, \* the one-shot ref
    obs,                    \* Session Observer runs (saveCookiesIfLoggedIn)
    pendingDel,             \* deleteItemAsync calls of a URL logout, not yet performed
    unreg,                  \* unregisterPushNotifications runs
    reg,                    \* the registerForPushNotifications run, its last result, and
                            \*   calls: its invocations since the launch or the last logout URL
    probe,                  \* hasSessionCookie: the cookies it is applied to
    probeResult,            \*   and what it returned: <<>> before the call, <<b>> after
    navDecision,            \* onShouldStartLoadWithRequest: the last request and its answer
    externalOpened,         \* URLs handed to Linking.openURL
    data,                   \* getDeepLinkUrl: the notification data it is applied to
    deepLink,               \*   and what it returned: <<>> before the call, <<url>> after
    isConnected,            \* React state: "true", "false" or "null" (boolean | null)
    isLoading,
    hasLoaded,
    loadError,              \* string, or Null
    retrying,               \* NetInfo.fetch() calls of retry() in flight
    page,                   \* the WebView: "unmounted", or where its page load stands:
                            \*   "starting" (onLoadStart not yet delivered), "loading", "done"
    startY,                 \* injectedScript: let startY
    pulling,                \*   let pulling
    scrollY,                \* window.scrollY of the page
    gesture,                \* the touch gesture under way: fingers down, whether it began
                            \*   at the top, where it began and is, sentinels posted in it
    showSettings,           \* React state of App: the visible prop of NotificationSettings
    prefs,                  \* React state of NotificationSettings: the local copy
    loading,
    fetching,               \* getNotificationPreferences() calls in flight
    puts,                   \* bodies of the PUT requests in flight
    remote                  \* the preferences the Remote Site holds

initVars == <<initPc, storedCookies, biometricEnabled, hasHardware, isEnrolled, toSet,
              initResult, promptCount, restoreOps, jarAtLaunch>>
uiVars == <<isLoggedIn, canGoBack, notificationRegistered>>
asyncVars == <<obs, pendingDel, unreg, reg>>
loginVars == <<isLoggedIn, notificationRegistered, reg>>
functionVars == <<probe, probeResult>>
navVars == <<navDecision, externalOpened>>
linkVars == <<data, deepLink>>
\* What no handler changes.
touchVars == <<startY, pulling, scrollY, gesture>>
prefVars == <<showSettings, prefs, loading, fetching, puts, remote>>
sideVars == <<touchVars, prefVars>>
staticVars == <<platformOS, isDevice, functionVars, navVars, linkVars, sideVars>>
shellState == <<isConnected, isLoading, hasLoaded, loadError, retrying>>
shellVars == <<shellState, page>>
\* What no step of the session and push handlers changes.
envVars == <<staticVars, shellVars>>
vars == <<envVars, store, jar, initVars, showWebView, uiVars, asyncVars>>

Runs == 1..MaxRuns
StoreKeys == {STORE_COOKIES_KEY, STORE_BIOMETRIC_KEY}
IdleRun == [pc |-> "idle", cookies |-> NoCookies]
Pendings == 1..MaxPending
IdleUnreg == [pc |-> "idle", deviceToken |-> Null]
\* No register run in flight; result is what the last one returned.
IdleReg(result) == [pc |-> "idle", deviceToken |-> Null, responseOk |-> FALSE, result |-> result,
                    calls |-> 0]
NoDecision == [url |-> Null, allowed |-> FALSE]

\* useState initial values of the shell's screen state.
ShellMounted ==
    /\ isConnected = "true"
    /\ isLoading = TRUE
    /\ hasLoaded = FALSE
    /\ loadError = Null
    /\ retrying = 0

\* The state of a freshly constructed App component (useState / useRef initial values).
Mounted ==
    /\ initPc = "getCookies"
    /\ storedCookies = Undefined
    /\ biometricEnabled = Undefined
    /\ hasHardware = FALSE
    /\ isEnrolled = FALSE
    /\ toSet = <<>>
    /\ initResult = "pending"
    /\ promptCount = 0
    /\ restoreOps = 0
    /\ showWebView = FALSE
    /\ isLoggedIn = FALSE
    /\ canGoBack = FALSE
    /\ notificationRegistered = FALSE
    /\ obs = [r \in Runs |-> IdleRun]
    /\ pendingDel = [k \in StoreKeys |-> 0]
    /\ unreg = [u \in Pendings |-> IdleUnreg]
    /\ reg = IdleReg("none")
    /\ ShellMounted
    /\ page = "unmounted"

\* Fields of a notification's data: <<>> is a missing field, <<"string", s>> a string,
\* <<"number", s>> a number (written s).
Missing == <<>>
Str(s) == <<"string", s>>
Num(s) == <<"number", s>>
IsString(f) == f # Missing /\ f[1] = "string"

NoData == [type |-> Missing, symbol |-> Missing, market |-> Missing]

\* No notification has been tapped.
NoLink == data = NoData /\ deepLink = <<>>

\* No finger is down.
NoGesture == [touches |-> 0, atTop |-> FALSE, from |-> 0, at |-> 0, posted |-> 0]

\* The injected script has just run on a page scrolled to its top.
NoTouch == startY = 0 /\ pulling = FALSE /\ scrollY = 0 /\ gesture = NoGesture

DEFAULT_PREFS ==
    [watchlistPriceAlerts |-> TRUE,
     priceAlertThreshold |-> 5,
     usaMarketSummary |-> TRUE,
     asxMarketSummary |-> TRUE,
     europeMarketSummary |-> TRUE]

\* The settings sheet is closed and has never been opened.
NoPrefs ==
    /\ showSettings = FALSE
    /\ prefs = DEFAULT_PREFS
    /\ loading = TRUE
    /\ fetching = 0
    /\ puts = <<>>

SideIdle == NoTouch /\ NoPrefs /\ remote = DEFAULT_PREFS

\* hasSessionCookie, onShouldStartLoadWithRequest and getDeepLinkUrl have not been called.
NothingApplied ==
    /\ probe = NoCookies
    /\ probeResult = <<>>
    /\ navDecision = NoDecision
    /\ externalOpened = {}
    /\ NoLink
    /\ SideIdle

\* Nothing stored, no cookies.
Installed ==
    /\ store = [cookies |-> Null, flag |-> Null, token |-> Null]
    /\ jar = NoCookies
    /\ jarAtLaunch = NoCookies

\* First launch after installation, on a simulator: Device.isDevice is false there,
\* so that registerForPushNotifications returns at once.
Init ==
    /\ platformOS \in {"ios", "android"}
    /\ isDevice = FALSE
    /\ Installed
    /\ NothingApplied
    /\ Mounted

\* The first launch has shown the browser (the startup flow found nothing stored).
Shown ==
    /\ Installed
    /\ initPc = "done"
    /\ storedCookies = Undefined
    /\ biometricEnabled = Undefined
    /\ hasHardware = FALSE
    /\ isEnrolled = FALSE
    /\ toSet = <<>>
    /\ initResult = "pending"
    /\ promptCount = 0
    /\ restoreOps = 0
    /\ showWebView = TRUE
    /\ isLoggedIn = FALSE
    /\ canGoBack = FALSE
    /\ notificationRegistered = FALSE
    /\ obs = [r \in Runs |-> IdleRun]
    /\ pendingDel = [k \in StoreKeys |-> 0]
    /\ unreg = [u \in Pendings |-> IdleUnreg]
    /\ reg = IdleReg("none")
    /\ ShellMounted
    /\ page = "starting"

\* The user (or the system) ends the app and starts it again.  The store and the
\* jar persist; handlers and operations in flight are gone.
Relaunch ==
    /\ jarAtLaunch' = jar
    /\ initPc' = "getCookies"
    /\ storedCookies' = Undefined
    /\ biometricEnabled' = Undefined
    /\ hasHardware' = FALSE
    /\ isEnrolled' = FALSE
    /\ toSet' = <<>>
    /\ initResult' = "pending"
    /\ promptCount' = 0
    /\ restoreOps' = 0
    /\ showWebView' = FALSE
    /\ isLoggedIn' = FALSE
    /\ canGoBack' = FALSE
    /\ notificationRegistered' = FALSE
    /\ obs' = [r \in Runs |-> IdleRun]
    /\ pendingDel' = [k \in StoreKeys |-> 0]
    /\ unreg' = [u \in Pendings |-> IdleUnreg]
    /\ reg' = IdleReg("none")
    /\ isConnected' = "true"
    /\ isLoading' = TRUE
    /\ hasLoaded' = FALSE
    /\ loadError' = Null
    /\ retrying' = 0
    /\ page' = "unmounted"
    /\ UNCHANGED <<staticVars, store, jar>>

\* --------------------------------------------------------------- rendering

\* Faulty variant: unknown connectivity shows the offline screen too (!isConnected).
ScreenOf_UnknownIsOffline(connected, error) ==
    IF connected # "true" THEN "offline"
    ELSE IF error # Null THEN "error"
    ELSE "browser"

\* What App returns: if (isConnected === false) the offline screen; if (loadError) the
\* error screen; else the view that holds the WebView.
ScreenOf(connected, error) ==
    IF connected = "false" THEN "offline"
    ELSE IF error # Null THEN "error"
    ELSE "browser"

Screen == ScreenOf(isConnected, loadError)

\* Does App render the WebView?  {showWebView && <WebView ... />}
WebViewRendered(show, connected, error) == ScreenOf(connected, error) = "browser" /\ show

\* The render that follows a handler.  A WebView that was not rendered before is a
\* new one and loads source.uri; one that is no longer rendered is gone with its
\* load; reload says that the handler called webViewRef.current?.reload().
Rerender(reload) ==
    LET before == WebViewRendered(showWebView, isConnected, loadError)
        after == WebViewRendered(showWebView', isConnected', loadError')
    IN  page' = IF ~after THEN "unmounted"
                ELSE IF ~before \/ reload THEN "starting"
                ELSE page

\* -------------------------------------------- biometric initialization effect
(* The catch and finally blocks run in the same turn as the step that ends *)
(* the try body; the model shows them as the step Finally, so that the way *)
(* the try body ended is visible before the locals go out of scope.         *)

InitFrame == UNCHANGED <<envVars, store, showWebView, uiVars, asyncVars, jarAtLaunch>>

\* Faulty variant: the browser is shown at the end of the try body only; a caught error skips it.
EndTry_ErrorSkipsFinally(r) ==
    initPc' = (IF r = "error" THEN "done" ELSE "finally") /\ initResult' = r

\* Leave the try body with outcome r.
EndTry(r) == initPc' = "finally" /\ initResult' = r

\* `!s` for a string-or-null s
Falsy(s) == s = Null \/ s = ""

\* const storedCookies = await SecureStore.getItemAsync(STORE_COOKIES_KEY)
InitGetCookies ==
    /\ initPc = "getCookies"
    /\ \E ok \in BOOLEAN :
        IF ok
        THEN /\ storedCookies' = store.cookies
             /\ initPc' = "getBiometric"
             /\ UNCHANGED initResult
        ELSE /\ EndTry("error")
             /\ UNCHANGED storedCookies
    /\ UNCHANGED <<biometricEnabled, hasHardware, isEnrolled, toSet, promptCount, restoreOps, jar>>
    /\ InitFrame

\* Faulty variant: the flag is not consulted.
SkipRestore_IgnoresFlag(cookies, flag) == Falsy(cookies)

\* The guard of the biometric path: a snapshot and the flag "true".
SkipRestore(cookies, flag) == Falsy(cookies) \/ flag # "true"

\* const biometricEnabled = await SecureStore.getItemAsync(STORE_BIOMETRIC_KEY)
\* if (!storedCookies || biometricEnabled !== 'true') { setShowWebView(true); return; }
InitGetBiometric ==
    /\ initPc = "getBiometric"
    /\ \E ok \in BOOLEAN :
        IF ok
        THEN /\ biometricEnabled' = store.flag
             /\ IF SkipRestore(storedCookies, store.flag)
                THEN EndTry("skipped")
                ELSE initPc' = "hasHardware" /\ UNCHANGED initResult
        ELSE /\ EndTry("error")
             /\ UNCHANGED biometricEnabled
    /\ UNCHANGED <<storedCookies, hasHardware, isEnrolled, toSet, promptCount, restoreOps, jar>>
    /\ InitFrame

\* const hasHardware = await LocalAuthentication.hasHardwareAsync()
InitHasHardware ==
    /\ initPc = "hasHardware"
    /\ \E ok \in BOOLEAN, answer \in BOOLEAN :
        IF ok
        THEN /\ hasHardware' = answer
             /\ initPc' = "isEnrolled"
             /\ UNCHANGED initResult
        ELSE /\ EndTry("error")
             /\ UNCHANGED hasHardware
    /\ UNCHANGED <<storedCookies, biometricEnabled, isEnrolled, toSet, promptCount, restoreOps, jar>>
    /\ InitFrame

\* The guard of the prompt: hardware present and a biometric enrolled.
Capable(hw, enrolled) == hw /\ enrolled

\* const isEnrolled = await LocalAuthentication.isEnrolledAsync()
\* if (!hasHardware || !isEnrolled) { setShowWebView(true); return; }
\* LocalAuthentication.authenticateAsync({...}): the prompt is shown
InitIsEnrolled ==
    /\ initPc = "isEnrolled"
    /\ \E ok \in BOOLEAN, answer \in BOOLEAN :
        IF ok
        THEN /\ isEnrolled' = answer
             /\ IF ~Capable(hasHardware, answer)
                THEN EndTry("skipped") /\ UNCHANGED promptCount
                ELSE /\ initPc' = "authenticate"
                     /\ promptCount' = promptCount + 1
                     /\ UNCHANGED initResult
        ELSE /\ EndTry("error")
             /\ UNCHANGED <<isEnrolled, promptCount>>
    /\ UNCHANGED <<storedCookies, biometricEnabled, hasHardware, toSet, restoreOps, jar>>
    /\ InitFrame

\* What restoreCookies does once every cookie is set: flush on Android, then return true.
AfterSets ==
    IF platformOS = "android"
    THEN initPc' = "flush" /\ restoreOps' = restoreOps + 1 /\ UNCHANGED initResult
    ELSE EndTry("restored") /\ UNCHANGED restoreOps

\* Faulty variant: restoreCookies is not awaited, so the browser is shown while it runs.
InitAuthenticate_NoAwait ==
    /\ initPc = "authenticate"
    /\ JsonParse(storedCookies).ok
    /\ toSet' = ObjectValues(JsonParse(storedCookies).val)
    /\ initPc' = "clearAll"
    /\ restoreOps' = restoreOps + 1
    /\ showWebView' = TRUE
    /\ UNCHANGED <<storedCookies, biometricEnabled, hasHardware, isEnrolled, promptCount, jar,
                   initResult, staticVars, shellState, store, uiVars, asyncVars, jarAtLaunch>>
    /\ Rerender(FALSE)

\* const result = await LocalAuthentication.authenticateAsync(...)
\* if (result.success) { await restoreCookies(storedCookies) }:
\*   const cookies = JSON.parse(cookiesJson); CookieManager.clearAll(true)
InitAuthenticate ==
    /\ initPc = "authenticate"
    /\ \/ \E outcome \in {"declined", "rejected"} :
            /\ EndTry(IF outcome = "declined" THEN "declined" ELSE "error")
            /\ UNCHANGED <<toSet, restoreOps>>
       \/ LET parsed == JsonParse(storedCookies)
          IN  IF parsed.ok /\ parsed.val.t = "obj"
              THEN /\ toSet' = ObjectValues(parsed.val)
                   /\ initPc' = "clearAll"
                   /\ restoreOps' = restoreOps + 1
                   /\ UNCHANGED initResult
              ELSE /\ EndTry("restoreFailed")
                   /\ UNCHANGED <<toSet, restoreOps>>
    /\ UNCHANGED <<storedCookies, biometricEnabled, hasHardware, isEnrolled, promptCount, jar>>
    /\ InitFrame

\* Faulty variant: the jar is not cleared before the cookies are set.
InitClearAll_NoClear ==
    /\ initPc = "clearAll"
    /\ IF Len(toSet) > 0
       THEN initPc' = "set" /\ restoreOps' = restoreOps + 1 /\ UNCHANGED initResult
       ELSE AfterSets
    /\ UNCHANGED <<storedCookies, biometricEnabled, hasHardware, isEnrolled, toSet, promptCount,
                   jar>>
    /\ InitFrame

\* await CookieManager.clearAll(true), then the first CookieManager.set of the loop
InitClearAll ==
    /\ initPc = "clearAll"
    /\ \E ok \in BOOLEAN :
        IF ok
        THEN /\ jar' = NoCookies
             /\ IF Len(toSet) > 0
                THEN initPc' = "set" /\ restoreOps' = restoreOps + 1 /\ UNCHANGED initResult
                ELSE AfterSets
        ELSE /\ EndTry("restoreFailed")
             /\ UNCHANGED <<jar, restoreOps>>
    /\ UNCHANGED <<storedCookies, biometricEnabled, hasHardware, isEnrolled, toSet, promptCount>>
    /\ InitFrame

\* await CookieManager.set(WEBSITE_URL, {...}, true), then the next turn of the loop
InitSet ==
    /\ initPc = "set"
    /\ \E ok \in BOOLEAN :
        IF ok
        THEN /\ jar' = JarSet(jar, RestoredCookie(Head(toSet)))
             /\ toSet' = Tail(toSet)
             /\ IF Len(toSet) > 1
                THEN initPc' = "set" /\ restoreOps' = restoreOps + 1 /\ UNCHANGED initResult
                ELSE AfterSets
        ELSE /\ EndTry("restoreFailed")
             /\ UNCHANGED <<jar, toSet, restoreOps>>
    /\ UNCHANGED <<storedCookies, biometricEnabled, hasHardware, isEnrolled, promptCount>>
    /\ InitFrame

\* if (Platform.OS === 'android') { await CookieManager.flush() }  return true
InitFlush ==
    /\ initPc = "flush"
    /\ \E ok \in BOOLEAN : EndTry(IF ok THEN "restored" ELSE "restoreFailed")
    /\ UNCHANGED <<storedCookies, biometricEnabled, hasHardware, isEnrolled, toSet,
                   promptCount, restoreOps, jar>>
    /\ InitFrame

\* finally { setShowWebView(true) }, and the async function returns
Finally ==
    /\ initPc = "finally"
    /\ showWebView' = TRUE
    /\ initPc' = "done"
    /\ storedCookies' = Undefined
    /\ biometricEnabled' = Undefined
    /\ hasHardware' = FALSE
    /\ isEnrolled' = FALSE
    /\ toSet' = <<>>
    /\ initResult' = "pending"
    /\ promptCount' = 0
    /\ restoreOps' = 0
    /\ jarAtLaunch' = NoCookies
    /\ UNCHANGED <<staticVars, shellState, store, jar, uiVars, asyncVars>>
    /\ Rerender(FALSE)

Startup ==
    \/ InitGetCookies
    \/ InitGetBiometric
    \/ InitHasHardware
    \/ InitIsEnrolled
    \/ InitAuthenticate
    \/ InitClearAll
    \/ InitSet
    \/ InitFlush
    \/ Finally

\* ------------------------------------------------------------- the web page

\* The Remote Site changes the cookies of the embedded browser (login, logout, ...).
PageSetsCookies ==
    /\ showWebView
    /\ \E j \in PageJars : j # jar /\ jar' = j
    /\ UNCHANGED <<envVars, store, initVars, showWebView, uiVars, asyncVars>>

\* ------------------------------------------------ registerForPushNotifications

\* What Notifications.getDevicePushTokenAsync() gives on this device.
DeviceToken == "apns-device-token"

RegFrame == UNCHANGED <<envVars, jar, initVars, showWebView, uiVars, obs, pendingDel, unreg>>

RegTo(pc) == reg' = [reg EXCEPT !.pc = pc]
\* the promise of register() settles: with the token, with null ("null"), or rejected ("threw")
RegReturns(result) == reg' = [IdleReg(result) EXCEPT !.calls = reg.calls]

\* Faulty variant: the permissions are asked for on a simulator too.
InvokeRegister_NoDeviceCheck ==
    LET calls == IF reg.calls < MaxCalls THEN reg.calls + 1 ELSE MaxCalls IN
    /\ reg.pc = "idle"
    /\ reg' = [pc |-> "getPermissions", deviceToken |-> Null, responseOk |-> FALSE,
               result |-> "none", calls |-> calls]

\* registerForPushNotifications(), not awaited: it runs up to its first await
\* if (!Device.isDevice) return null;  Notifications.getPermissionsAsync()
InvokeRegister ==
    LET calls == IF reg.calls < MaxCalls THEN reg.calls + 1 ELSE MaxCalls IN
    /\ reg.pc = "idle"
    /\ IF ~isDevice
       THEN reg' = [IdleReg("null") EXCEPT !.calls = calls]
       ELSE reg' = [pc |-> "getPermissions", deviceToken |-> Null, responseOk |-> FALSE,
                    result |-> "none", calls |-> calls]

\* const { status: existingStatus } = await Notifications.getPermissionsAsync()
\* if (existingStatus !== 'granted') Notifications.requestPermissionsAsync()
RegGetPermissions ==
    /\ reg.pc = "getPermissions"
    /\ \E status \in {"granted", "undetermined", "rejected"} :
        IF status = "rejected" THEN RegReturns("threw")
        ELSE IF status = "granted" THEN RegTo("getToken")
        ELSE RegTo("requestPermissions")
    /\ UNCHANGED store
    /\ RegFrame

\* const { status } = await Notifications.requestPermissionsAsync()
\* if (finalStatus !== 'granted') return null;  Notifications.getDevicePushTokenAsync()
RegRequestPermissions ==
    /\ reg.pc = "requestPermissions"
    /\ \E status \in {"granted", "denied", "rejected"} :
        IF status = "rejected" THEN RegReturns("threw")
        ELSE IF status = "granted" THEN RegTo("getToken")
        ELSE RegReturns("null")
    /\ UNCHANGED store
    /\ RegFrame

\* const tokenData = await Notifications.getDevicePushTokenAsync();  try { fetch(POST) }
RegGetToken ==
    /\ reg.pc = "getToken"
    /\ \E ok \in BOOLEAN :
        IF ok THEN reg' = [reg EXCEPT !.pc = "post", !.deviceToken = DeviceToken]
        ELSE RegReturns("threw")
    /\ UNCHANGED store
    /\ RegFrame

\* Faulty variant: the token is stored whatever status the response has.
RegPost_IgnoresStatus ==
    /\ reg.pc = "post"
    /\ \E response \in {"ok", "notOk", "rejected"} :
        IF response # "rejected"
        THEN reg' = [reg EXCEPT !.pc = "setItem", !.responseOk = (response = "ok")]
        ELSE RegReturns("null")
    /\ UNCHANGED store
    /\ RegFrame

\* const response = await fetch(.../api/push/register, {method: 'POST', ...})
\* if (!response.ok) return null;  SecureStore.setItemAsync(STORE_DEVICE_TOKEN_KEY, deviceToken)
RegPost ==
    /\ reg.pc = "post"
    /\ \E response \in {"ok", "notOk", "rejected"} :
        IF response = "ok" THEN reg' = [reg EXCEPT !.pc = "setItem", !.responseOk = TRUE]
        ELSE RegReturns("null")
    /\ UNCHANGED store
    /\ RegFrame

\* await SecureStore.setItemAsync(STORE_DEVICE_TOKEN_KEY, deviceToken); return deviceToken
RegSetItem ==
    /\ reg.pc = "setItem"
    /\ \E ok \in BOOLEAN :
        IF ok
        THEN /\ store' = [store EXCEPT !.token = reg.deviceToken]
             /\ RegReturns(reg.deviceToken)
        ELSE /\ RegReturns("null")
             /\ UNCHANGED store
    /\ RegFrame

registerForPushNotifications ==
    \/ RegGetPermissions
    \/ RegRequestPermissions
    \/ RegGetToken
    \/ RegPost
    \/ RegSetItem

\* Faulty variant: the effect does not look at the one-shot flag.
SetIsLoggedIn_NoOneShot(v) ==
    /\ isLoggedIn' = v
    /\ IF v /\ ~isLoggedIn
       THEN notificationRegistered' = TRUE /\ InvokeRegister
       ELSE UNCHANGED <<notificationRegistered, reg>>

\* setIsLoggedIn(v) and the push registration effect, which runs when isLoggedIn changed:
\* if (!isLoggedIn || notificationRegistered.current) return;
\* notificationRegistered.current = true; registerForPushNotifications();
SetIsLoggedIn(v) ==
    /\ isLoggedIn' = v
    /\ IF v /\ ~isLoggedIn /\ ~notificationRegistered
       THEN notificationRegistered' = TRUE /\ InvokeRegister
       ELSE UNCHANGED <<notificationRegistered, reg>>

\* ---------------------------------------------------------- Session Observer

LoadFrame == UNCHANGED <<staticVars, jar, initVars, showWebView, canGoBack, pendingDel, unreg>>
ObsFrame == LoadFrame /\ UNCHANGED shellVars

RunTo(r, pc, cookies) == obs' = [obs EXCEPT ![r] = [pc |-> pc, cookies |-> cookies]]
\* the run returns, or its catch block has logged the error
RunEnds(r) == obs' = [obs EXCEPT ![r] = IdleRun]

\* The WebView reports the end of a page load.
\* onLoadEnd: setIsLoading(false); if (!hasLoaded) { setHasLoaded(true); ... }
\* await saveCookiesIfLoggedIn(), which calls CookieManager.get(WEBSITE_URL, true)
onLoadEnd ==
    /\ showWebView
    /\ page # "unmounted"
    /\ page' = "done"
    /\ isLoading' = FALSE
    /\ hasLoaded' = TRUE
    /\ \E r \in Runs :
        /\ obs[r].pc = "idle"
        /\ \A q \in Runs : q < r => obs[q].pc # "idle"
        /\ RunTo(r, "get", NoCookies)
    /\ UNCHANGED <<store, loginVars, isConnected, loadError, retrying>>
    /\ LoadFrame

\* Faulty variant: a serialization of exactly the threshold length is stored.
Storable_UpToThreshold(json) == Len(json) <= SizeThreshold

\* Is the serialized cookie set small enough to be stored?
Storable(json) == Len(json) < SizeThreshold

\* Faulty variant: the cookies are stored whether or not they hold a session cookie.
ObsGetResolved_NoSessionCheck(r) ==
    /\ obs[r].pc = "get"
    /\ SetIsLoggedIn(hasSessionCookie(jar))
    /\ IF Storable(Stringify(jar)) THEN RunTo(r, "setCookies", jar) ELSE RunEnds(r)
    /\ UNCHANGED store
    /\ ObsFrame

\* const cookies = await CookieManager.get(...) resolves; if (hasSessionCookie(cookies)) {
\*   setIsLoggedIn(true); if (json.length < 2000) SecureStore.setItemAsync(COOKIES, json)
\* } else { setIsLoggedIn(false); SecureStore.getItemAsync(COOKIES) }
ObsGetResolved(r) ==
    /\ obs[r].pc = "get"
    /\ IF hasSessionCookie(jar)
       THEN /\ SetIsLoggedIn(TRUE)
            /\ IF Storable(Stringify(jar)) THEN RunTo(r, "setCookies", jar) ELSE RunEnds(r)
       ELSE /\ SetIsLoggedIn(FALSE)
            /\ RunTo(r, "getPrev", jar)
    /\ UNCHANGED store
    /\ ObsFrame

\* CookieManager.get rejects: catch (e) { console.warn(...) }
ObsGetRejected(r) ==
    /\ obs[r].pc = "get"
    /\ RunEnds(r)
    /\ UNCHANGED <<store, loginVars>>
    /\ ObsFrame

ObsGet(r) == ObsGetResolved(r) \/ ObsGetRejected(r)

\* Faulty variant: a failed snapshot write does not stop the run, which goes on to write the flag.
ObsSetCookies_IgnoresFailure(r) ==
    /\ obs[r].pc = "setCookies"
    /\ \E ok \in BOOLEAN :
        IF ok
        THEN store' = [store EXCEPT !.cookies = Stringify(obs[r].cookies)]
        ELSE UNCHANGED store
    /\ RunTo(r, "setFlag", NoCookies)
    /\ UNCHANGED loginVars
    /\ ObsFrame

\* await SecureStore.setItemAsync(STORE_COOKIES_KEY, json), then setItemAsync(BIOMETRIC, 'true')
ObsSetCookies(r) ==
    /\ obs[r].pc = "setCookies"
    /\ \E ok \in BOOLEAN :
        IF ok
        THEN /\ store' = [store EXCEPT !.cookies = Stringify(obs[r].cookies)]
             /\ RunTo(r, "setFlag", NoCookies)
        ELSE /\ RunEnds(r)
             /\ UNCHANGED store
    /\ UNCHANGED loginVars
    /\ ObsFrame

\* await SecureStore.setItemAsync(STORE_BIOMETRIC_KEY, 'true')
ObsSetFlag(r) ==
    /\ obs[r].pc = "setFlag"
    /\ \E ok \in BOOLEAN :
        IF ok THEN store' = [store EXCEPT !.flag = "true"] ELSE UNCHANGED store
    /\ RunEnds(r)
    /\ UNCHANGED loginVars
    /\ ObsFrame

\* Faulty variant: the snapshot is deleted without looking whether one is stored.
ObsGetPrev_AlwaysDeletes(r) ==
    /\ obs[r].pc = "getPrev"
    /\ \E ok \in BOOLEAN :
        IF ok THEN RunTo(r, "delCookies", obs[r].cookies) ELSE RunEnds(r)
    /\ UNCHANGED <<store, loginVars>>
    /\ ObsFrame

\* const previouslyStored = await SecureStore.getItemAsync(STORE_COOKIES_KEY)
\* if (previouslyStored) SecureStore.deleteItemAsync(STORE_COOKIES_KEY)
ObsGetPrev(r) ==
    /\ obs[r].pc = "getPrev"
    /\ \E ok \in BOOLEAN :
        IF ok /\ ~Falsy(store.cookies)
        THEN RunTo(r, "delCookies", obs[r].cookies)
        ELSE RunEnds(r)
    /\ UNCHANGED <<store, loginVars>>
    /\ ObsFrame

\* await SecureStore.deleteItemAsync(STORE_COOKIES_KEY), then deleteItemAsync(BIOMETRIC)
ObsDelCookies(r) ==
    /\ obs[r].pc = "delCookies"
    /\ \E ok \in BOOLEAN :
        IF ok
        THEN /\ store' = [store EXCEPT !.cookies = Null]
             /\ RunTo(r, "delFlag", obs[r].cookies)
        ELSE /\ RunEnds(r)
             /\ UNCHANGED store
    /\ UNCHANGED loginVars
    /\ ObsFrame

\* await SecureStore.deleteItemAsync(STORE_BIOMETRIC_KEY)
ObsDelFlag(r) ==
    /\ obs[r].pc = "delFlag"
    /\ \E ok \in BOOLEAN :
        IF ok THEN store' = [store EXCEPT !.flag = Null] ELSE UNCHANGED store
    /\ RunEnds(r)
    /\ UNCHANGED loginVars
    /\ ObsFrame

saveCookiesIfLoggedIn ==
    \E r \in Runs :
        \/ ObsGet(r)
        \/ ObsSetCookies(r)
        \/ ObsSetFlag(r)
        \/ ObsGetPrev(r)
        \/ ObsDelCookies(r)
        \/ ObsDelFlag(r)

\* ------------------------------------------------------------ URL-pattern logout

\* The URLs the embedded browser reports in navigation-state changes.
NavUrls == {"https://www.buysidebro.com/dashboard",
            "https://www.buysidebro.com/account/logout",
            "https://www.buysidebro.com/signout",
            "https://www.buysidebro.com/auth/Logged-Out",
            "https://www.buysidebro.com/login?next=/logout"}

LogoutPatterns == {"/logout", "/signout", "/logged-out"}

\* Faulty variant: only the first pattern is looked for.
IsLogoutUrl_FirstPatternOnly(navUrl) == Includes(ToLowerCase(navUrl), "/logout")

\* const url = navState.url.toLowerCase();
\* url.includes('/logout') || url.includes('/signout') || url.includes('/logged-out')
IsLogoutUrl(navUrl) ==
    LET url == ToLowerCase(navUrl) IN \E p \in LogoutPatterns : Includes(url, p)

\* The navigation URLs the handler takes for a logout.
LogoutNavUrls == {navUrl \in NavUrls : IsLogoutUrl(navUrl)}

\* SecureStore.deleteItemAsync(key), not awaited
IssueDeletes(keys) ==
    pendingDel' = [k \in StoreKeys |-> IF k \in keys THEN pendingDel[k] + 1 ELSE pendingDel[k]]

\* unregisterPushNotifications(), not awaited: it runs up to its first await
InvokeUnregister ==
    \E u \in Pendings :
        /\ unreg[u].pc = "idle"
        /\ \A q \in Pendings : q < u => unreg[q].pc # "idle"
        /\ unreg' = [unreg EXCEPT ![u] = [pc |-> "get", deviceToken |-> Null]]

onNavigationStateChange(navUrl, back) ==
    /\ showWebView
    /\ canGoBack' = back
    /\ IF navUrl \in LogoutNavUrls
       THEN /\ \A k \in StoreKeys : pendingDel[k] < MaxPending
            /\ IssueDeletes({STORE_COOKIES_KEY, STORE_BIOMETRIC_KEY})
            /\ InvokeUnregister
            /\ notificationRegistered' = FALSE
            /\ isLoggedIn' = FALSE
            /\ reg' = [reg EXCEPT !.calls = 0]
       ELSE UNCHANGED <<pendingDel, unreg, notificationRegistered, isLoggedIn, reg>>
    /\ UNCHANGED <<envVars, store, jar, initVars, showWebView, obs>>

\* The field of the store that holds a key.
StoreField(k) == IF k = STORE_COOKIES_KEY THEN "cookies" ELSE "flag"

\* A deleteItemAsync of a URL logout is performed, or fails; nothing awaits it.
DeleteSettles(k) ==
    /\ pendingDel[k] > 0
    /\ pendingDel' = [pendingDel EXCEPT ![k] = pendingDel[k] - 1]
    /\ \E ok \in BOOLEAN :
        IF ok THEN store' = [store EXCEPT ![StoreField(k)] = Null] ELSE UNCHANGED store
    /\ UNCHANGED <<envVars, jar, initVars, showWebView, uiVars, obs, unreg, reg>>

\* ------------------------------------------------ unregisterPushNotifications

UnregFrame == UNCHANGED <<envVars, jar, initVars, showWebView, uiVars, obs, pendingDel, reg>>

UnregEnds(u) == unreg' = [unreg EXCEPT ![u] = IdleUnreg]

\* const deviceToken = await SecureStore.getItemAsync(STORE_DEVICE_TOKEN_KEY)
\* if (!deviceToken) return;  fetch(.../api/push/unregister, {method: 'DELETE', ...})
UnregGet(u) ==
    /\ unreg[u].pc = "get"
    /\ \E ok \in BOOLEAN :
        IF ok /\ ~Falsy(store.token)
        THEN unreg' = [unreg EXCEPT ![u] = [pc |-> "fetch", deviceToken |-> store.token]]
        ELSE UnregEnds(u)
    /\ UNCHANGED store
    /\ UnregFrame

\* await fetch(...): any response resolves it; then SecureStore.deleteItemAsync(TOKEN)
UnregFetch(u) ==
    /\ unreg[u].pc = "fetch"
    /\ \E response \in {"ok", "notOk", "rejected"} :
        IF response # "rejected"
        THEN unreg' = [unreg EXCEPT ![u].pc = "delete"]
        ELSE UnregEnds(u)
    /\ UNCHANGED store
    /\ UnregFrame

\* await SecureStore.deleteItemAsync(STORE_DEVICE_TOKEN_KEY)
UnregDelete(u) ==
    /\ unreg[u].pc = "delete"
    /\ \E ok \in BOOLEAN :
        IF ok THEN store' = [store EXCEPT !.token = Null] ELSE UNCHANGED store
    /\ UnregEnds(u)
    /\ UnregFrame

unregisterPushNotifications(u) == UnregGet(u) \/ UnregFetch(u) \/ UnregDelete(u)

\* ----------------------------------------------- onShouldStartLoadWithRequest

\* The URLs the embedded browser asks about before it loads them.
RequestUrls == {"https://www.buysidebro.com/dashboard",
                "https://buysidebro.com/",
                "https://app.buysidebro.com/login?next=/a",
                "about:blank",
                "data:text/html,hi",
                "https://checkout.stripe.com/pay",
                "https://accounts.google.com/o/oauth2",
                "https://example.com/about:blank",
                "https://example.com/?h=data:x",
                "http://example.org",
                "https://example.com/?next=buysidebro.com",
                "https://notbuysidebro.com/",
                "https://buysidebro.com.example.net/login"}

\* Faulty variant: only URLs of the site are loaded in the embedded browser.
ShouldStartLoad_OriginOnly(url) == Includes(url, WEBSITE_ORIGIN)

\* if (url.includes(WEBSITE_ORIGIN)) return true;
\* if (url.startsWith('about:') || url.startsWith('data:')) return true;  ... return false
ShouldStartLoad(url) ==
    \/ Includes(url, WEBSITE_ORIGIN)
    \/ StartsWith(url, "about:") \/ StartsWith(url, "data:")

\* The handler: the answer it returns, and Linking.openURL(url) before it returns false.
onShouldStartLoadWithRequest(url) ==
    /\ showWebView
    /\ navDecision' = [url |-> url, allowed |-> ShouldStartLoad(url)]
    /\ externalOpened' = IF ShouldStartLoad(url) THEN externalOpened
                         ELSE externalOpened \cup {url}
    /\ UNCHANGED <<platformOS, isDevice, functionVars, linkVars, sideVars, shellVars, store, jar,
                   initVars, showWebView, uiVars, asyncVars>>

\* ------------------------------------------------------------ shell screens

ShellFrame == UNCHANGED <<staticVars, store, jar, initVars, showWebView, uiVars, asyncVars>>

\* What NetInfo reports as state.isConnected (boolean | null).
Connectivity == {"true", "false", "null"}

\* NetInfo.addEventListener((state) => setIsConnected(state.isConnected))
NetInfoEvent(connected) ==
    /\ isConnected' = connected
    /\ UNCHANGED <<isLoading, hasLoaded, loadError, retrying>>
    /\ ShellFrame
    /\ Rerender(FALSE)

\* The WebView reports the start of a page load.
\* onLoadStart: setIsLoading(true); setLoadError(null)
onLoadStart ==
    /\ page = "starting"
    /\ isLoading' = TRUE
    /\ loadError' = Null
    /\ page' = "loading"
    /\ UNCHANGED <<isConnected, hasLoaded, retrying>>
    /\ ShellFrame

\* event.nativeEvent.description of a failed load
Descriptions == {"", "The request timed out."}

\* Faulty variant: a failed load without description shows no error.
onError_NoDefault(description) ==
    /\ page \in {"starting", "loading"}
    /\ isLoading' = FALSE
    /\ loadError' = IF description = "" THEN Null ELSE description
    /\ UNCHANGED <<isConnected, hasLoaded, retrying>>
    /\ ShellFrame
    /\ Rerender(FALSE)

\* The WebView reports that the page load failed.
\* onError: setIsLoading(false); setLoadError(description || 'Failed to load page')
onError(description) ==
    /\ page \in {"starting", "loading"}
    /\ isLoading' = FALSE
    /\ loadError' = IF description = "" THEN "Failed to load page" ELSE description
    /\ UNCHANGED <<isConnected, hasLoaded, retrying>>
    /\ ShellFrame
    /\ Rerender(FALSE)

\* event.nativeEvent.statusCode of a response with an error status
StatusCodes == {404, 499, 500, 503}

\* The WebView reports a response with an HTTP error status.
\* onHttpError: if (statusCode >= 500) setLoadError(`Server error (${statusCode}). ...`)
onHttpError(statusCode) ==
    /\ page = "loading"
    /\ loadError' = IF statusCode >= 500
                    THEN "Server error (" \o ToString(statusCode) \o "). Please try again later."
                    ELSE loadError
    /\ UNCHANGED <<isConnected, isLoading, hasLoaded, retrying>>
    /\ ShellFrame
    /\ Rerender(FALSE)

\* The Retry button of the offline screen or of the error screen is pressed.
\* retry: setLoadError(null); NetInfo.fetch().then(...)
retry ==
    /\ Screen \in {"offline", "error"}
    /\ retrying < MaxRetrying
    /\ loadError' = Null
    /\ retrying' = retrying + 1
    /\ UNCHANGED <<isConnected, isLoading, hasLoaded>>
    /\ ShellFrame
    /\ Rerender(FALSE)

\* NetInfo.fetch() of retry() resolves:
\* setIsConnected(state.isConnected); if (state.isConnected) webViewRef.current?.reload()
RetryResolves(connected) ==
    /\ retrying > 0
    /\ retrying' = retrying - 1
    /\ isConnected' = connected
    /\ UNCHANGED <<isLoading, hasLoaded, loadError>>
    /\ ShellFrame
    /\ Rerender(connected = "true")

\* NetInfo.fetch() of retry() rejects; there is no rejection handler.
RetryRejects ==
    /\ retrying > 0
    /\ retrying' = retrying - 1
    /\ UNCHANGED <<isConnected, isLoading, hasLoaded, loadError, page>>
    /\ ShellFrame

PULL_TO_REFRESH == "__PULL_TO_REFRESH__"

\* What a page may post with window.ReactNativeWebView.postMessage.
Messages == {PULL_TO_REFRESH, "__pull_to_refresh__", "__PULL_TO_REFRESH__ ", ""}

\* onMessage: if (event.nativeEvent.data === '__PULL_TO_REFRESH__') webViewRef.current?.reload()
onMessage(message) ==
    /\ page # "unmounted"
    /\ page' = IF message = PULL_TO_REFRESH THEN "starting" ELSE page
    /\ UNCHANGED shellState
    /\ ShellFrame

\* The user follows a link of the loaded page: the WebView starts the next load.
PageNavigates ==
    /\ page = "done"
    /\ page' = "starting"
    /\ UNCHANGED shellState
    /\ ShellFrame

\* ------------------------------------------------------------ specification

Next ==
    \/ Relaunch
    \/ Startup
    \/ PageSetsCookies
    \/ onLoadEnd
    \/ saveCookiesIfLoggedIn
    \/ \E navUrl \in NavUrls, back \in BOOLEAN : onNavigationStateChange(navUrl, back)
    \/ \E k \in StoreKeys : DeleteSettles(k)
    \/ \E u \in Pendings : UnregGet(u)

Spec == Init /\ [][Next]_vars

\* The startup flow under the assumption that every awaited platform call settles.
FairSpec == Spec /\ WF_vars(Startup)

\* hasSessionCookie applied to a cookie set, as saveCookiesIfLoggedIn does with
\* what CookieManager.get returned.
ClassifyInit ==
    /\ platformOS = "ios" /\ isDevice = FALSE /\ Shown
    /\ navDecision = NoDecision /\ externalOpened = {}
    /\ NoLink
    /\ SideIdle
    /\ probe \in ProbeJars
    /\ probeResult = <<>>

Classify ==
    /\ probeResult = <<>>
    /\ probeResult' = <<hasSessionCookie(probe)>>
    /\ UNCHANGED <<platformOS, isDevice, probe, navVars, linkVars, sideVars, shellVars, store, jar,
                   initVars, showWebView, uiVars, asyncVars>>

ClassifySpec == ClassifyInit /\ [][Classify]_vars

\* The push-notification lifecycle on an iOS device or simulator, from the moment
\* the first launch has shown the browser, with a Remote Site that logs in and out
\* by setting and removing its session cookie.
PushInit == platformOS = "ios" /\ isDevice \in BOOLEAN /\ Shown /\ NothingApplied

SessionJars == {NoCookies, [n \in {"sid"} |-> SidCookie]}

PushNext ==
    \/ PageSetsCookies /\ jar' \in SessionJars
    \/ onLoadEnd
    \/ saveCookiesIfLoggedIn
    \/ \E navUrl \in NavUrls, back \in BOOLEAN : onNavigationStateChange(navUrl, back)
    \/ \E k \in StoreKeys : DeleteSettles(k)
    \/ registerForPushNotifications
    \/ \E u \in Pendings : unregisterPushNotifications(u)

PushSpec == PushInit /\ [][PushNext]_vars

\* The navigation policy of the shown browser, asked about one URL after another.
NavInit == platformOS = "ios" /\ isDevice = FALSE /\ Shown /\ NothingApplied

NavNext == \E url \in RequestUrls : onShouldStartLoadWithRequest(url)

NavSpec == NavInit /\ [][NavNext]_vars

\* The screens of the shell from the first launch after installation: the startup
\* flow finds nothing stored, the page sets no cookie, and the WebView reports its
\* loads in their order (start, then end or failure).
ShellInit == platformOS = "ios" /\ isDevice = FALSE /\ Installed /\ NothingApplied /\ Mounted

ShellNext ==
    \/ InitGetCookies
    \/ InitGetBiometric
    \/ Finally
    \/ \E connected \in Connectivity : NetInfoEvent(connected)
    \/ onLoadStart
    \/ page = "loading" /\ onLoadEnd
    \/ \E description \in Descriptions : onError(description)
    \/ \E statusCode \in StatusCodes : onHttpError(statusCode)
    \/ retry
    \/ \E connected \in Connectivity : RetryResolves(connected)
    \/ RetryRejects
    \/ \E message \in Messages : onMessage(message)
    \/ PageNavigates
    \/ \E r \in Runs : ObsGet(r) \/ ObsGetPrev(r)

ShellSpec == ShellInit /\ [][ShellNext]_vars

\* ------------------------------------------------------------- getDeepLinkUrl

API_BASE == "https://www.buysidebro.com"

\* The data of the notifications the Remote Site, or anyone else, may send.
DataTypes == {Missing, Str("price_alert"), Str("summary"), Str("unknown"), Num("1")}
DataSymbols == {Missing, Str("ABC"), Str("BHP.AX"), Num("7")}
DataMarkets == {Missing, Str("usa"), Str("asx"), Num("2")}
Payloads == [type : DataTypes, symbol : DataSymbols, market : DataMarkets]

\* Faulty variant: a summary needs no market.
getDeepLinkUrl_AnySummary(d) ==
    IF d.type = Str("price_alert") /\ IsString(d.symbol)
    THEN API_BASE \o "/stock/" \o d.symbol[2]
    ELSE IF d.type = Str("summary") THEN API_BASE \o "/news"
    ELSE Null

\* if (data.type === 'price_alert' && typeof data.symbol === 'string') return `${API_BASE}/stock/${data.symbol}`;
\* if (data.type === 'summary' && typeof data.market === 'string') return `${API_BASE}/news`;
\* return null
getDeepLinkUrl(d) ==
    IF d.type = Str("price_alert") /\ IsString(d.symbol)
    THEN API_BASE \o "/stock/" \o d.symbol[2]
    ELSE IF d.type = Str("summary") /\ IsString(d.market) THEN API_BASE \o "/news"
    ELSE Null

\* A notification is tapped: const url = getDeepLinkUrl(data)
DeepLinkInit ==
    /\ platformOS = "ios" /\ isDevice = FALSE /\ Shown
    /\ probe = NoCookies /\ probeResult = <<>>
    /\ navDecision = NoDecision /\ externalOpened = {}
    /\ data \in Payloads
    /\ deepLink = <<>>
    /\ SideIdle

DeepLink ==
    /\ deepLink = <<>>
    /\ deepLink' = <<getDeepLinkUrl(data)>>
    /\ UNCHANGED <<platformOS, isDevice, functionVars, navVars, data, sideVars, shellVars, store, jar,
                   initVars, showWebView, uiVars, asyncVars>>

DeepLinkSpec == DeepLinkInit /\ [][DeepLink]_vars

\* ------------------------------------------------- injectedScript (pull to refresh)

MaxTouches == 2
MaxPosts == 2

\* pageY of a touch, and window.scrollY, in pixels
PageYs == {0, 120, 121, 300}
ScrollYs == {0, 50}

PULL_THRESHOLD == 120

\* What the handlers of the shell own.
appVars == <<platformOS, isDevice, functionVars, navVars, linkVars, shellVars, store, jar,
             initVars, showWebView, uiVars, asyncVars>>

\* e.touches[0].pageY of a touchstart: the finger that went down, or the first one
\* if fingers were down already.
FirstTouchY(y) == IF gesture.touches = 0 THEN y ELSE gesture.at

\* A finger goes down at pageY y.
\* touchstart: if (window.scrollY === 0) { startY = e.touches[0].pageY; pulling = true; }
touchstart(y) ==
    /\ gesture.touches < MaxTouches
    /\ gesture' = IF gesture.touches = 0
                  THEN [touches |-> 1, atTop |-> scrollY = 0, from |-> y, at |-> y,
                        posted |-> 0]
                  ELSE [gesture EXCEPT !.touches = @ + 1]
    /\ IF scrollY = 0
       THEN startY' = FirstTouchY(y) /\ pulling' = TRUE
       ELSE UNCHANGED <<startY, pulling>>
    /\ UNCHANGED <<scrollY, appVars, prefVars>>

\* The first finger moves to pageY y.
\* touchmove: if (!pulling) return; const diff = e.touches[0].pageY - startY;
\* if (diff > 120 && window.scrollY === 0) { pulling = false; postMessage(sentinel); }
touchmove(y) ==
    /\ gesture.touches > 0
    /\ IF pulling /\ y - startY > PULL_THRESHOLD /\ scrollY = 0
       THEN /\ gesture.posted < MaxPosts
            /\ pulling' = FALSE
            /\ gesture' = [gesture EXCEPT !.at = y, !.posted = @ + 1]
       ELSE /\ gesture' = [gesture EXCEPT !.at = y]
            /\ UNCHANGED pulling
    /\ UNCHANGED <<startY, scrollY, appVars, prefVars>>

\* A finger is lifted.  touchend: pulling = false;
touchend ==
    /\ gesture.touches > 0
    /\ gesture' = [gesture EXCEPT !.touches = @ - 1]
    /\ pulling' = FALSE
    /\ UNCHANGED <<startY, scrollY, appVars, prefVars>>

\* The system takes the touches away (an alert, the notification shade, an app
\* switch): the document gets touchcancel, for which the script has no listener.
touchcancel ==
    /\ gesture.touches > 0
    /\ gesture' = [gesture EXCEPT !.touches = 0]
    /\ UNCHANGED <<startY, pulling, scrollY, appVars, prefVars>>

\* The page scrolls.
scroll(y) ==
    /\ y # scrollY
    /\ scrollY' = y
    /\ UNCHANGED <<startY, pulling, gesture, appVars, prefVars>>

GestureInit == platformOS = "ios" /\ isDevice = FALSE /\ Shown /\ NothingApplied

GestureNext ==
    \/ \E y \in PageYs : touchstart(y) \/ touchmove(y)
    \/ touchend
    \/ touchcancel
    \/ \E y \in ScrollYs : scroll(y)

GestureSpec == GestureInit /\ [][GestureNext]_vars

\* ------------------------------------------------------------ NotificationSettings

MaxFetches == 1
MaxPuts == 1

THRESHOLD_OPTIONS == {3, 5, 7, 10}

PrefKeys == DOMAIN DEFAULT_PREFS

\* What a control of the sheet can set a preference to.
ValuesOf(key) == IF key = "priceAlertThreshold" THEN THRESHOLD_OPTIONS ELSE BOOLEAN

\* The preferences the Remote Site may hold for the user when the app starts.
RemotePrefs ==
    {DEFAULT_PREFS,
     [DEFAULT_PREFS EXCEPT !.watchlistPriceAlerts = FALSE, !.priceAlertThreshold = 10,
                           !.asxMarketSummary = FALSE]}

\* { [key]: value }: a key the object does not have is <<>>, one it has is <<value>>.
Partial(key, value) == [k \in PrefKeys |-> IF k = key THEN <<value>> ELSE <<>>]

\* What the Remote Site holds after a PUT of a partial object.
Merged(held, body) == [k \in PrefKeys |-> IF body[k] = <<>> THEN held[k] ELSE body[k][1]]

Without(seq, i) == SubSeq(seq, 1, i - 1) \o SubSeq(seq, i + 1, Len(seq))

PrefFrame == UNCHANGED <<appVars, touchVars>>

\* The settings button, shown on the browser screen when isLoggedIn && !isLoading:
\* setShowSettings(true).  The effect on [visible] then runs:
\* setLoading(true); getNotificationPreferences()
OpenSettings ==
    /\ ~showSettings
    /\ Screen = "browser" /\ isLoggedIn /\ ~isLoading
    /\ fetching < MaxFetches
    /\ showSettings' = TRUE
    /\ loading' = TRUE
    /\ fetching' = fetching + 1
    /\ UNCHANGED <<prefs, puts, remote>>
    /\ PrefFrame

\* onClose: setShowSettings(false).  The effect returns at once: if (!visible) return;
CloseSettings ==
    /\ showSettings
    /\ showSettings' = FALSE
    /\ UNCHANGED <<prefs, loading, fetching, puts, remote>>
    /\ PrefFrame

\* getNotificationPreferences() resolves, with the preferences of the Remote Site or,
\* on any failure, with null:  if (fetched) setPrefs(fetched); setLoading(false);
GetResolves(ok) ==
    LET fetched == IF ok THEN <<remote>> ELSE <<>> IN
    /\ fetching > 0
    /\ fetching' = fetching - 1
    /\ prefs' = IF fetched # <<>> THEN fetched[1] ELSE prefs
    /\ loading' = FALSE
    /\ UNCHANGED <<showSettings, puts, remote>>
    /\ PrefFrame

\* Faulty variant: the update starts from the defaults, not from the displayed copy.
updatePref_FromDefaults(key, value) ==
    /\ showSettings /\ ~loading
    /\ key = "priceAlertThreshold" => prefs.watchlistPriceAlerts
    /\ Len(puts) < MaxPuts
    /\ prefs' = [DEFAULT_PREFS EXCEPT ![key] = value]
    /\ puts' = Append(puts, Partial(key, value))
    /\ UNCHANGED <<showSettings, loading, fetching, remote>>
    /\ PrefFrame

\* A switch or a threshold button of the sheet, which shows them when !loading (and
\* the thresholds when prefs.watchlistPriceAlerts):
\* const updated = { ...prefs, [key]: value }; setPrefs(updated);
\* updateNotificationPreferences({ [key]: value });
updatePref(key, value) ==
    /\ showSettings /\ ~loading
    /\ key = "priceAlertThreshold" => prefs.watchlistPriceAlerts
    /\ Len(puts) < MaxPuts
    /\ prefs' = [prefs EXCEPT ![key] = value]
    /\ puts' = Append(puts, Partial(key, value))
    /\ UNCHANGED <<showSettings, loading, fetching, remote>>
    /\ PrefFrame

\* A PUT of updateNotificationPreferences is answered or fails; its result
\* (response.ok, or false) is not looked at.
PutSettles(i, ok) ==
    /\ i \in 1..Len(puts)
    /\ remote' = IF ok THEN Merged(remote, puts[i]) ELSE remote
    /\ puts' = Without(puts, i)
    /\ UNCHANGED <<showSettings, prefs, loading, fetching>>
    /\ PrefFrame

\* A user who is logged in on a simulator, the page loaded and the session saved.
PrefsInit ==
    /\ platformOS = "ios" /\ isDevice = FALSE
    /\ jar = [n \in {"sid"} |-> SidCookie]
    /\ jarAtLaunch = NoCookies
    /\ store = [cookies |-> Stringify(jar), flag |-> "true", token |-> Null]
    /\ initPc = "done"
    /\ storedCookies = Undefined
    /\ biometricEnabled = Undefined
    /\ hasHardware = FALSE
    /\ isEnrolled = FALSE
    /\ toSet = <<>>
    /\ initResult = "pending"
    /\ promptCount = 0
    /\ restoreOps = 0
    /\ showWebView = TRUE
    /\ isLoggedIn = TRUE
    /\ canGoBack = FALSE
    /\ notificationRegistered = TRUE
    /\ obs = [r \in Runs |-> IdleRun]
    /\ pendingDel = [k \in StoreKeys |-> 0]
    /\ unreg = [u \in Pendings |-> IdleUnreg]
    /\ reg = [IdleReg("null") EXCEPT !.calls = 1]
    /\ isConnected = "true"
    /\ isLoading = FALSE
    /\ hasLoaded = TRUE
    /\ loadError = Null
    /\ retrying = 0
    /\ page = "done"
    /\ probe = NoCookies
    /\ probeResult = <<>>
    /\ navDecision = NoDecision
    /\ externalOpened = {}
    /\ NoLink
    /\ NoTouch
    /\ NoPrefs
    /\ remote \in RemotePrefs

PrefsNext ==
    \/ OpenSettings
    \/ CloseSettings
    \/ \E ok \in BOOLEAN : GetResolves(ok)
    \/ \E key \in PrefKeys : \E value \in ValuesOf(key) : updatePref(key, value)
    \/ \E i \in 1..MaxPuts, ok \in BOOLEAN : PutSettles(i, ok)

PrefsSpec == PrefsInit /\ [][PrefsNext]_vars

\* ------------------------------------------------------------------ claims

RestorePcs == {"clearAll", "set", "flush"}

\* C1: on every launch the browser gate eventually opens, whatever the outcome of
\* the store reads, the capability check, the prompt or the restore: unless the app
\* is launched again and again for ever, showWebView becomes true (and stays true).
C1_StartupLiveness == []<><<Relaunch>>_vars \/ <>[]showWebView

\* The prompt was shown and rejected: the flow is in its catch block, about to
\* show the browser.
C1_Witness == initPc = "finally" /\ initResult = "error" /\ promptCount = 1 /\ ~showWebView

\* C2: the browser is not shown in any state in which the startup flow has not
\* finished, and restoreCookies makes no Cookie Jar operation once it is shown.
C2_StartupOrdering ==
    /\ showWebView => initPc = "done"
    /\ initPc \in RestorePcs \/ restoreOps > 0 => ~showWebView

\* A restore is under way and the browser is hidden.
C2_Witness == initPc = "set" /\ Len(toSet) = 1 /\ restoreOps = 3 /\ ~showWebView

\* C3: the prompt is shown at most once per launch, and only if a snapshot is stored,
\* the stored flag is "true", hardware is present and a biometric is enrolled;
\* otherwise there is no prompt and restoreCookies makes no Cookie Jar operation.
C3_PromptGating ==
    /\ promptCount <= 1
    /\ (promptCount > 0 \/ restoreOps > 0 \/ initPc \in RestorePcs) =>
           /\ store.cookies # Null
           /\ store.flag = "true"
           /\ hasHardware
           /\ isEnrolled
    /\ (restoreOps > 0 \/ initPc \in RestorePcs) => promptCount = 1

\* The prompt is on screen.
C3_Witness == initPc = "authenticate" /\ promptCount = 1

\* C4 (as claimed): when the prompt fails or is cancelled, or a step of the startup
\* flow raises an exception, the flow ends with the Cookie Jar as the launch found it.
C4_NoRestoreOnFailure ==
    (initPc = "finally" /\ initResult \in {"declined", "error", "restoreFailed"}) =>
        jar = jarAtLaunch

\* The cookies of a stored snapshot, as the claim describes the jar after a restore.
SnapshotJar(json) ==
    LET snap == JsonParse(json).val
        names == {snap.v[k][1] : k \in 1..Len(snap.v)}
    IN  [n \in names |->
            LET c == Prop(snap, n)
            IN  [name |-> n,
                 value |-> Prop(c, "value").v,
                 domain |-> IF HasProp(c, "domain") THEN Prop(c, "domain").v
                            ELSE ".buysidebro.com",
                 path |-> IF HasProp(c, "path") THEN Prop(c, "path").v ELSE "/"]]

\* C5: after a restore that completes successfully the Cookie Jar holds exactly the
\* cookies of the snapshot (names, values, domain and path with their defaults)
\* and none of the cookies it held before.
C5_RestoreExactness ==
    (initPc = "finally" /\ initResult = "restored") =>
        /\ DOMAIN jar = DOMAIN SnapshotJar(store.cookies)
        /\ \A n \in DOMAIN jar :
               \A f \in {"name", "value", "domain", "path"} :
                   jar[n][f] = SnapshotJar(store.cookies)[n][f]

\* A restore completed over a jar that held a cookie the snapshot lacks; the
\* snapshot's cookie came with a domain, which is kept, and without a path.
C5_Witness ==
    /\ initPc = "finally" /\ initResult = "restored"
    /\ "theme" \in DOMAIN jarAtLaunch /\ "theme" \notin DOMAIN jar
    /\ jar["sid"].value = "abc"
    /\ jar["sid"].domain = "www.buysidebro.com" /\ jar["sid"].path = "/"

\* C6: the snapshot is written only by a Session Observer run whose cookie read
\* held a session cookie (and it is the serialization of that read); the flag is
\* written only by a Session Observer run; no other step writes either key.
C6_SnapshotWriteGuard ==
    [][/\ (store'.cookies # store.cookies /\ store'.cookies # Null) =>
              \E r \in Runs : /\ obs[r].pc = "setCookies"
                              /\ obs'[r].pc = "setFlag"
                              /\ hasSessionCookie(obs[r].cookies)
                              /\ store'.cookies = Stringify(obs[r].cookies)
       /\ (store'.flag # store.flag /\ store'.flag # Null) =>
              \E r \in Runs : obs[r].pc = "setFlag" /\ obs'[r].pc = "idle"]_vars

\* A run has written the snapshot of a jar that holds a second cookie too.
C6_Witness ==
    /\ \E r \in Runs : obs[r].pc = "setFlag"
    /\ store.cookies # Null /\ store.cookies = Stringify(jar) /\ "theme" \in DOMAIN jar

NoSessionPcs == {"getPrev", "delCookies", "delFlag"}

\* C7 (as claimed): when a Session Observer run that found no session cookie
\* completes, the logged-in state is false and the store holds neither the
\* snapshot nor the flag.
C7_SessionAbsentClearing ==
    [][\A r \in Runs :
           (obs[r].pc \in NoSessionPcs /\ obs'[r].pc = "idle" /\ showWebView') =>
               /\ ~isLoggedIn'
               /\ store'.cookies = Null
               /\ store'.flag = Null]_vars

\* The URL patterns as the claim reads them: contained in the URL as it is.
ClaimedLogoutUrl(navUrl) == \E p \in {"/logout", "/signout", "/logged-out"} : Includes(navUrl, p)
ClaimedLogoutNavUrls == {navUrl \in NavUrls : ClaimedLogoutUrl(navUrl)}

\* C8: every navigation-state change whose URL contains /logout, /signout or
\* /logged-out issues the delete of the snapshot key and of the flag key, invokes
\* push unregister and marks the state logged-out, whatever the Cookie Jar holds.
C8_UrlLogout ==
    [][\A navUrl \in ClaimedLogoutNavUrls, back \in BOOLEAN :
           onNavigationStateChange(navUrl, back) =>
               /\ \A k \in StoreKeys : pendingDel'[k] = pendingDel[k] + 1
               /\ \E u \in Pendings : unreg[u].pc = "idle" /\ unreg'[u].pc = "get"
               /\ ~isLoggedIn'
               /\ ~notificationRegistered']_vars

\* A URL logout has been handled while the jar still holds a session cookie.
C8_Witness ==
    /\ \A k \in StoreKeys : pendingDel[k] = 1
    /\ \E u \in Pendings : unreg[u].pc = "get"
    /\ hasSessionCookie(jar) /\ ~isLoggedIn /\ store.cookies # Null

\* No operation on the snapshot key or the flag key is in flight.
StoreQuiet ==
    /\ \A r \in Runs : obs[r].pc \in {"idle", "get"}
    /\ \A k \in StoreKeys : pendingDel[k] = 0
    /\ initPc \notin {"getCookies", "getBiometric"}

\* C9 (as claimed): whenever no credential-store operation is in flight, the flag
\* is stored if and only if the snapshot is stored.
C9_SnapshotFlagPairing == StoreQuiet => (store.flag # Null <=> store.cookies # Null)

\* C10 (as claimed): the flag is written "true" only when the device has passed a
\* biometric capability check at the time of the save.  The only capability
\* answers the program ever holds are hasHardware and isEnrolled.
C10_FlagImpliesCapabilityCheck ==
    [][(store'.flag = "true" /\ store.flag # "true") => Capable(hasHardware, isEnrolled)]_vars

\* C10 (amended): the flag is only ever "true", and it is written only by a
\* Session Observer run that has just written the snapshot successfully.
C10_FlagAfterSnapshot ==
    [][/\ store'.flag \in {Null, "true"}
       /\ (store'.flag # store.flag /\ store'.flag # Null) =>
              \E r \in Runs : obs[r].pc = "setFlag" /\ obs'[r].pc = "idle"
       /\ \A r \in Runs :
              (obs'[r].pc = "setFlag" /\ obs[r].pc # "setFlag") =>
                  /\ obs[r].pc = "setCookies"
                  /\ store'.cookies = Stringify(obs[r].cookies)]_vars

\* The flag has been written after a snapshot.
C10_Witness == store.flag = "true" /\ store.cookies # Null /\ showWebView

\* A cookie set whose serialization is at or above the size threshold.
Oversized(cookies) == Len(Stringify(cookies)) >= 2000

\* C11 (as claimed): a Session Observer run whose cookie set is oversized makes no
\* write to the credential store, whether or not the set holds a session cookie.
C11_OversizedNeverWrites ==
    [][\A r \in Runs :
           (obs[r].pc \in {"setCookies", "delCookies", "delFlag"} /\ obs'[r] # obs[r]
               /\ Oversized(obs[r].cookies)) => store' = store]_vars

\* C11 (amended): a run that reads an oversized cookie set with a session cookie
\* sets the logged-in state true and ends without a store operation, so that
\* snapshot and flag keep their values; a run that reads a set without a session
\* cookie sets the logged-in state false and goes on to the clearing path,
\* whatever the size of the set.
C11_OversizedSnapshot ==
    [][\A r \in Runs :
           /\ (ObsGetResolved(r) /\ hasSessionCookie(jar) /\ Oversized(jar)) =>
                  isLoggedIn' /\ obs'[r].pc = "idle" /\ store' = store
           /\ (ObsGetResolved(r) /\ ~hasSessionCookie(jar)) =>
                  ~isLoggedIn' /\ obs'[r].pc = "getPrev" /\ store' = store
           /\ obs'[r].pc = "setCookies" => ~Oversized(obs'[r].cookies)]_vars

\* A page load has ended on a cookie set of exactly 2000 characters that holds a
\* session cookie, while an earlier snapshot is stored and the state is logged-out.
C11_Witness ==
    /\ \E r \in Runs : obs[r].pc = "get"
    /\ hasSessionCookie(jar) /\ Len(Stringify(jar)) = 2000
    /\ store.cookies # Null /\ store.flag = "true" /\ ~isLoggedIn

\* A marker occurs in a name, letter for letter.
Occurs(m, name) ==
    \E i \in 1..Len(name) : i + Len(m) - 1 <= Len(name) /\ SubSeq(name, i, i + Len(m) - 1) = m

\* The same names with the other value in every cookie.
OtherValues(cookies) ==
    [n \in DOMAIN cookies |->
        [name |-> n, value |-> CHOOSE v \in ProbeValues : v # cookies[n].value]]

\* C12: hasSession is true exactly when some cookie name contains one of the five
\* markers in that very case; the values of the cookies do not change the answer.
C12_SessionClassification ==
    probeResult # <<>> =>
        /\ probeResult[1] =
               (\E n \in DOMAIN probe :
                    \E m \in {"session", "sid", "connect", "auth", "token"} : Occurs(m, n))
        /\ hasSessionCookie(OtherValues(probe)) = probeResult[1]

\* Classified as no session: two names that hold a marker in upper case, with a
\* marker as a value.
C12_Witness ==
    /\ probeResult = <<FALSE>>
    /\ DOMAIN probe = {"PHPSESSID", "Token", "theme"}
    /\ probe["Token"].value = "session"

\* Nothing of a session is stored: snapshot, flag and device token are absent.
NothingStored == store = [cookies |-> Null, flag |-> Null, token |-> Null]

\* A step of the cookie-absence logout of the Session Observer.
ObserverLogoutStep ==
    \E r \in Runs :
        \/ ObsGetResolved(r) /\ ~hasSessionCookie(jar)
        \/ ObsGetPrev(r)
        \/ ObsDelCookies(r)
        \/ ObsDelFlag(r)

\* A step of the URL-pattern logout: the handler, its deletions, unregister().
UrlLogoutStep ==
    \/ \E navUrl \in LogoutNavUrls, back \in BOOLEAN : onNavigationStateChange(navUrl, back)
    \/ \E k \in StoreKeys : DeleteSettles(k)
    \/ \E u \in Pendings : unregisterPushNotifications(u)

\* C13: with snapshot, flag and device token absent, every step of either logout
\* path leaves the store as it is, the observer issues no deletion and unregister()
\* no request; the handler of a logout URL leaves the app logged out with the
\* one-shot flag reset, the observer that finds no session cookie leaves it logged
\* out and its later steps leave the logged-in state alone, and a repetition of
\* either path from the state it left changes neither the store nor these.
C13_LogoutIdempotence ==
    [][NothingStored =>
        /\ ObserverLogoutStep \/ UrlLogoutStep => store' = store
        /\ \A r \in Runs : ObsGetPrev(r) => obs'[r] = IdleRun
        /\ \A u \in Pendings : UnregGet(u) => unreg'[u] = IdleUnreg
        /\ (\E r \in Runs : ObsGetResolved(r) /\ ~hasSessionCookie(jar)) =>
              ~isLoggedIn' /\ notificationRegistered' = notificationRegistered
        /\ (\E r \in Runs : ObsGetPrev(r) \/ ObsDelCookies(r) \/ ObsDelFlag(r)) =>
              UNCHANGED <<isLoggedIn, notificationRegistered>>
        /\ (\E navUrl \in LogoutNavUrls, back \in BOOLEAN :
               onNavigationStateChange(navUrl, back)) =>
              ~isLoggedIn' /\ ~notificationRegistered'
        /\ UrlLogoutStep /\ ~isLoggedIn /\ ~notificationRegistered =>
              UNCHANGED <<isLoggedIn, notificationRegistered>>]_vars

\* Both logout paths are under way with nothing stored, the app already logged out:
\* the deletions and unregister() of a logout URL are pending and the observer is
\* about to read the snapshot.
C13_Witness ==
    /\ NothingStored /\ ~isLoggedIn /\ ~notificationRegistered
    /\ \A k \in StoreKeys : pendingDel[k] > 0
    /\ \E u \in Pendings : unreg[u].pc = "get"
    /\ \E r \in Runs : obs[r].pc = "getPrev"

IndexFrom(s, t, from) ==
    LET hits == {i \in from..(Len(s) - Len(t) + 1) : SubSeq(s, i, i + Len(t) - 1) = t}
    IN  IF hits = {} THEN 0 ELSE CHOOSE i \in hits : \A j \in hits : i <= j

\* The host of a hierarchical URL ("" if it has none).
HostOf(url) ==
    LET sep == IndexFrom(url, "://", 1)
        start == sep + 3
        ends == {i \in start..Len(url) : SubSeq(url, i, i) \in {"/", "?", "#"}}
        stop == IF ends = {} THEN Len(url) + 1 ELSE CHOOSE i \in ends : \A j \in ends : i <= j
    IN  IF sep = 0 THEN "" ELSE SubSeq(url, start, stop - 1)

\* Is the host the site's domain or a subdomain of it?
SiteHost(host) ==
    \/ host = "buysidebro.com"
    \/ /\ Len(host) > Len(".buysidebro.com")
       /\ SubSeq(host, Len(host) - Len(".buysidebro.com") + 1, Len(host)) = ".buysidebro.com"

\* A URL with a host that is not the site's, and with neither of the schemes about:, data:.
ExternalUrl(url) ==
    /\ HostOf(url) # "" /\ ~SiteHost(HostOf(url))
    /\ ~StartsWith(url, "about:") /\ ~StartsWith(url, "data:")

\* C15: a request for a URL whose host is unrelated to the site's domain, and whose
\* scheme is neither about: nor data:, is answered with "do not load" and the URL
\* is handed to the system browser; a request is answered with "do not load"
\* exactly when its URL was handed to the system browser.
C15_ExternalNavigation ==
    navDecision.url # Null =>
        /\ ExternalUrl(navDecision.url) =>
              ~navDecision.allowed /\ navDecision.url \in externalOpened
        /\ ~navDecision.allowed <=> navDecision.url \in externalOpened

\* C16: register() never rejects: whatever fails in it, its promise resolves (with
\* the token or with null).
C16_RegisterNeverThrows == reg.result # "threw"

\* C17: the stored device token is written only by the step of register() that
\* follows a POST answered with a success status, and that run returns the token it
\* wrote; a run that returns a token has stored it; a run whose permission request
\* is not granted or whose POST is not answered with success returns null and
\* leaves the stored token as it is.
C17_TokenAfterRegistration ==
    [][/\ store'.token # store.token /\ store'.token # Null =>
            /\ reg.pc = "setItem" /\ reg.responseOk
            /\ store'.token = reg.deviceToken
            /\ reg'.pc = "idle" /\ reg'.result = store'.token
       /\ reg'.result # reg.result /\ reg'.result \notin {"none", "null", "threw"} =>
            reg.pc = "setItem" /\ reg.responseOk /\ store'.token = reg'.result
       /\ reg.pc = "requestPermissions" /\ reg'.pc = "idle" /\ reg'.result # "threw" =>
            reg'.result = "null" /\ store'.token = store.token
       /\ reg.pc = "post" /\ reg'.pc = "idle" =>
            reg'.result = "null" /\ store'.token = store.token
       /\ reg.pc = "setItem" => reg.responseOk]_vars

\* A register() has returned the token and the store holds it.
C17_Witness ==
    /\ reg.pc = "idle" /\ reg.result = DeviceToken
    /\ store.token = DeviceToken

\* C18: on a device that is not a physical one, register() returns null in the
\* step that invokes it, leaves the store as it is, and never stands at a
\* permission call, at the POST or at the store write; no token is ever stored.
C18_NonPhysicalDevice ==
    [][~isDevice =>
        /\ reg'.pc = "idle" /\ store'.token = Null
        /\ reg'.calls # reg.calls /\ reg'.calls # 0 =>
              reg'.result = "null" /\ store' = store]_vars

\* On a simulator the app is logged in and register() has been called.
C18_Witness ==
    /\ ~isDevice /\ isLoggedIn /\ notificationRegistered
    /\ reg.calls = 1 /\ reg.result = "null"

\* Has unregister() run u made its request and does it end with this step?
UnregCompletes(u) == unreg[u].pc \in {"fetch", "delete"} /\ unreg'[u].pc = "idle"

\* C19: unregister() that reads no token makes no request and changes nothing;
\* unregister() that read a token sends the DELETE with it, and when it ends the
\* stored token is gone, whether the request got a success status, an error status
\* or failed.
C19_UnregisterBestEffort ==
    [][\A u \in Pendings :
        /\ unreg[u].pc = "get" /\ unreg' # unreg /\ store.token = Null =>
              unreg'[u] = IdleUnreg /\ store' = store
        /\ unreg[u].pc = "fetch" => unreg[u].deviceToken # Null
        /\ UnregCompletes(u) => store'.token = Null]_vars

\* C20: register() is invoked at most once between the launch, or a logout URL,
\* and the next logout URL; a logout that the Session Observer detects does not
\* start a new count.
C20_RegisterAtMostOnce == reg.calls <= 1

\* After register() was called the observer found the session gone (the app is
\* logged out, the one-shot flag still up); the session cookie is back and the
\* observer is about to set the logged-in state to true again.
C20_Witness ==
    /\ reg.calls = 1 /\ ~isLoggedIn /\ notificationRegistered
    /\ hasSessionCookie(jar)
    /\ \E r \in Runs : obs[r].pc = "get"

\* A logout is detected in this step: the handler sees a logout URL, or the Session
\* Observer of a logged-in app finds no session cookie.
LogoutDetected ==
    \/ \E navUrl \in LogoutNavUrls, back \in BOOLEAN : onNavigationStateChange(navUrl, back)
    \/ isLoggedIn /\ \E r \in Runs : ObsGetResolved(r) /\ ~hasSessionCookie(jar)

\* C21: the step that detects a logout, by either path, invokes unregister() and
\* clears the one-shot flag, so that the next login registers again.
C21_UnregistrationOnLogout ==
    [][LogoutDetected =>
        /\ ~notificationRegistered'
        /\ \E u \in Pendings : unreg[u].pc = "idle" /\ unreg'[u].pc = "get"]_vars

\* C22 as claimed: the stock path of the symbol when type is price_alert and a
\* symbol is present, the news path when type is summary, null otherwise.
C22_DeepLinkAsClaimed ==
    deepLink # <<>> =>
        deepLink[1] =
            IF data.type = Str("price_alert") /\ data.symbol # Missing
            THEN "https://www.buysidebro.com/stock/" \o data.symbol[2]
            ELSE IF data.type = Str("summary") THEN "https://www.buysidebro.com/news"
            ELSE Null

\* C22: the stock path of the symbol when type is price_alert and symbol is a
\* string, else the news path when type is summary and market is a string, null
\* otherwise.
C22_DeepLinkMapping ==
    deepLink # <<>> =>
        deepLink[1] =
            IF data.type = Str("price_alert") /\ IsString(data.symbol)
            THEN "https://www.buysidebro.com/stock/" \o data.symbol[2]
            ELSE IF data.type = Str("summary") /\ IsString(data.market)
                 THEN "https://www.buysidebro.com/news"
            ELSE Null

\* The price alert for ABC has been mapped to the stock path.
C22_Witness ==
    /\ data = [type |-> Str("price_alert"), symbol |-> Str("ABC"), market |-> Missing]
    /\ deepLink = <<"https://www.buysidebro.com/stock/ABC">>

\* C23: no failure escapes the operation that raised it.  In the model a failure
\* escapes in two places, the only calls made outside a try block or without an
\* await: a register() run that ends rejected, and a deleteItemAsync of a logout
\* URL that is rejected (it settles with its key still stored).  The claim says
\* neither happens.
C23_NoUnhandledFailure ==
    [][/\ reg.pc # "idle" /\ reg'.pc = "idle" => reg'.result \in {"null", DeviceToken}
       /\ \A k \in StoreKeys :
            pendingDel'[k] < pendingDel[k] => store'[StoreField(k)] = Null]_vars

\* A load of the page starts in this step.
LoadStarts == page' = "starting" /\ page # "starting"

\* C24: retry() starts a load only when its connectivity re-check reports
\* connected: pressing Retry starts none, a re-check that reports connected leaves
\* the browser loading with no error, and a re-check that reports disconnected
\* starts none and leaves the shell on the offline screen.
C24_RetryAfterRecheck ==
    [][/\ retry => ~LoadStarts
       /\ RetryResolves("true") /\ loadError = Null =>
            page' = "starting" /\ loadError' = Null /\ Screen' = "browser"
       /\ RetryResolves("false") => ~LoadStarts /\ Screen' = "offline"
       /\ RetryResolves("null") => ~LoadStarts]_vars

\* C25: an error is recorded (the shell is in PageError, which the offline screen
\* covers while connectivity is lost) exactly by a load-error event and by an HTTP
\* error with a status of 500 or more; an HTTP error below 500 changes nothing of
\* it; and the error is cleared only by retry() or by the start of a load.
C25_PageErrorTransitions ==
    [][/\ loadError = Null /\ loadError' # Null =>
            \/ \E description \in Descriptions : onError(description)
            \/ \E statusCode \in StatusCodes : statusCode >= 500 /\ onHttpError(statusCode)
       /\ \A description \in Descriptions : onError(description) => loadError' # Null
       /\ \A statusCode \in StatusCodes :
            onHttpError(statusCode) =>
                IF statusCode >= 500 THEN loadError' # Null ELSE loadError' = loadError
       /\ loadError # Null /\ loadError' = Null => retry \/ onLoadStart
       /\ Screen = "error" /\ Screen' = "browser" => retry]_vars

\* A load failed without description: the error screen has replaced the WebView.
C25_Witness ==
    /\ loadError = "Failed to load page" /\ Screen = "error"
    /\ page = "unmounted" /\ showWebView

\* C28: the offline screen is what the shell shows exactly when isConnected is
\* false, whatever error is recorded and whether or not a load is under way, and
\* the WebView is then not rendered; with connectivity true or unknown the WebView
\* is rendered unless an error is shown; in every state the Network Monitor can
\* report each of the three connectivity values.
C28_OfflineScreen ==
    /\ Screen = "offline" <=> isConnected = "false"
    /\ isConnected = "false" => page = "unmounted"
    /\ isConnected # "false" /\ showWebView /\ loadError = Null => page # "unmounted"
    /\ \A connected \in Connectivity : ENABLED NetInfoEvent(connected)

\* Connectivity is lost while an error is recorded and the loading flag is up.
C28_Witness ==
    /\ Screen = "offline" /\ loadError # Null /\ isLoading

\* The path of a URL: from the first "/" after "://" up to the query or fragment.
PathOf(navUrl) ==
    LET n == Len(navUrl)
        scheme == CHOOSE i \in 1..(n - 2) : SubSeq(navUrl, i, i + 2) = "://"
                      /\ \A j \in 1..(i - 1) : SubSeq(navUrl, j, j + 2) # "://"
        slashes == {i \in (scheme + 3)..n : SubSeq(navUrl, i, i) = "/"}
        first == IF slashes = {} THEN n + 1
                 ELSE CHOOSE i \in slashes : \A j \in slashes : i <= j
        ends == {i \in first..n : SubSeq(navUrl, i, i) \in {"?", "#"}}
        last == IF ends = {} THEN n
                ELSE (CHOOSE i \in ends : \A j \in ends : i <= j) - 1
    IN SubSeq(navUrl, first, last)

\* The navigation URLs whose path holds none of the logout patterns.
NoLogoutPathNavUrls ==
    {navUrl \in NavUrls : \A p \in LogoutPatterns : ~Includes(ToLowerCase(PathOf(navUrl)), p)}

\* C26 (as claimed): a navigation-state change whose URL path contains none of
\* /logout, /signout, /logged-out deletes neither snapshot nor flag, does not
\* invoke push unregister and changes neither the logged-in state nor the
\* one-shot registration flag.
C26_PathOnlyLogout ==
    [][\A navUrl \in NoLogoutPathNavUrls, back \in BOOLEAN :
           onNavigationStateChange(navUrl, back) =>
               UNCHANGED <<pendingDel, unreg, isLoggedIn, notificationRegistered>>]_vars

\* Nothing asynchronous is in flight: no observer run, no delete, no push call.
NothingInFlight ==
    /\ \A r \in Runs : obs[r].pc = "idle"
    /\ \A k \in StoreKeys : pendingDel[k] = 0
    /\ \A u \in Pendings : unreg[u].pc = "idle"
    /\ reg.pc = "idle"

\* Run r was saving a session when a URL logout was handled: it has passed
\* setIsLoggedIn(true), which leaves the one-shot flag set, and only the URL
\* logout resets that flag.
SaveOvertakenByLogout(r) ==
    obs[r].pc \in {"setCookies", "setFlag"} /\ ~notificationRegistered

\* C27 (as claimed): once a URL logout has been detected and everything that was
\* in flight at that moment has completed, the observer run of an earlier page
\* load included, the store holds neither the snapshot nor the flag.
C27_LogoutWinsOverSaves ==
    [][\A r \in Runs :
           (SaveOvertakenByLogout(r) /\ NothingInFlight') =>
               store'.cookies = Null /\ store'.flag = Null]_vars

\* C29 (as claimed), the injected script: it posts the sentinel at most once per
\* touch gesture, and only for a gesture that began while scrolled to the top and
\* has moved down by more than the threshold, the page still being at the top.
C29_PullToRefresh ==
    [][\A y \in PageYs :
           (touchmove(y) /\ gesture'.posted > gesture.posted) =>
               /\ gesture.posted = 0
               /\ gesture.atTop
               /\ y - gesture.from > PULL_THRESHOLD
               /\ scrollY = 0]_vars

\* C29, the shell: a message reloads the page only if it is exactly the sentinel.
C29_ShellReloadsOnSentinelOnly ==
    [][\A message \in Messages :
           (onMessage(message) /\ page' = "starting" /\ page # "starting") =>
               message = PULL_TO_REFRESH]_vars

\* C30: updatePref(key, value) sets the local copy of that key to value at once,
\* with the PUT still in flight and the Remote Site not yet changed, puts only
\* that key into the PUT and leaves every other preference as it was; no settled
\* PUT, failed or not, and no failed fetch (null) changes the local copy.
C30_OptimisticPreferences ==
    [][/\ \A key \in PrefKeys : \A value \in ValuesOf(key) :
              updatePref(key, value) =>
                  /\ prefs'[key] = value
                  /\ \A k \in PrefKeys \ {key} : prefs'[k] = prefs[k]
                  /\ remote' = remote
                  /\ Len(puts') = Len(puts) + 1
                  /\ \A k \in PrefKeys :
                         puts'[Len(puts')][k] = IF k = key THEN <<value>> ELSE <<>>
       /\ \A i \in 1..MaxPuts, ok \in BOOLEAN : PutSettles(i, ok) => prefs' = prefs
       /\ GetResolves(FALSE) => prefs' = prefs]_vars

\* A preference was changed on the sheet and its PUT has failed: the local copy
\* keeps the change that the Remote Site never got.
C30_Witness ==
    /\ showSettings /\ ~loading /\ fetching = 0 /\ puts = <<>>
    /\ remote = DEFAULT_PREFS
    /\ prefs = [DEFAULT_PREFS EXCEPT !.usaMarketSummary = FALSE]

============================================================================
